---------------------------- MODULE Spec2Model ----------------------------
(***************************************************************************)
(* A model of create-dzx, the project scaffolding CLI (bin/index.js).      *)
(*                                                                         *)
(* Five specifications share the module:                                   *)
(*   Spec        one run of main(): argument parsing, prompts, validation, *)
(*               template copy, manifest rewrite, install, summary;        *)
(*   SpecSlug    slugify applied to bounded strings;                       *)
(*   SpecDetect  detectPackageManager applied to bounded directory chains; *)
(*   SpecParse   parseArgs applied to bounded argument vectors;            *)
(*   SpecSpinner the controller of createSpinner under bounded sequences   *)
(*               of calls and timer ticks.                                 *)
(*                                                                         *)
(* Strings that the code inspects character by character are sequences of  *)
(* one-character strings.  A command-line token is a record                *)
(* [dd, body]: dd is token.startsWith("--") and body is token.slice(2)     *)
(* when dd holds, the whole token otherwise.                               *)
(***************************************************************************)
EXTENDS Integers, Sequences, FiniteSets, TLC

VARIABLES
    \* ---- one run of main() ----
    args,        \* parseArgs(process.argv.slice(2))
    pc,          \* position of main()
    targetDir,   \* base name of the resolved target directory ("" before)
    template,    \* resolved template ("" before)
    runtime,     \* resolved runtime ("" before)
    fs,          \* the working directory: directory name -> tree
    fs0,         \* the working directory as the run found it
    prompts,     \* the prompts shown so far with their answers, in order
    printed,     \* what the run wrote to the terminal, in order
    spawned,     \* the commands given to spawn(), in order
    childExit,   \* how the spawned child ended ("" before): "exit 0", "exit 1",
                 \* "error"
    dzxVersion,  \* result of getDzxVersion() ("" before)
    stepTimes,   \* the labels of the step records pushed so far, in order
    lastStep,    \* the label step() was last called with ("" before)
    error,       \* the Error that ended the run (NoError if none)
    exitCode,    \* the process exit code
    \* ---- slugify ----
    slugIn, slugOut, slugPc,
    \* ---- detectPackageManager ----
    chain,       \* chain[1] = file names in cwd, chain[2] = in its parent, ...
    detected, detectPc,
    \* ---- parseArgs ----
    argvIn,      \* the argument vector given to parseArgs
    parsed,      \* what parseArgs returned or threw
    parsePc,
    \* ---- createSpinner ----
    enabled,     \* the argument of createSpinner: process.stdout.isTTY
    timer,       \* the interval handle the controller holds (NoTimer if null)
    message,     \* the label the controller holds
    frameIndex,  \* the number of frames rendered
    intervals,   \* the handles of the intervals that are active
    handles,     \* the number of setInterval calls so far
    stdout,      \* what the controller wrote to process.stdout, in order
    calls,       \* the controller calls and timer ticks so far
    lastCall     \* the name of the last call ("" before)

mainVars   == <<args, pc, targetDir, template, runtime, fs, fs0, prompts,
                printed, spawned, childExit, dzxVersion, stepTimes, lastStep,
                error, exitCode>>
slugVars   == <<slugIn, slugOut, slugPc>>
detectVars == <<chain, detected, detectPc>>
parseVars  == <<argvIn, parsed, parsePc>>
spinVars   == <<enabled, timer, message, frameIndex, intervals, handles,
                stdout, calls, lastCall>>
vars       == <<mainVars, slugVars, detectVars, parseVars, spinVars>>

-----------------------------------------------------------------------------
(* Bounds *)

MaxArgs == 3
MaxSlugLen == 4
MaxDepth == 7
MaxLockfiles == 2
MaxParseArgs == 3
MaxCalls == 6

-----------------------------------------------------------------------------
(* slugify *)

SlugAlphabet == {"a", "z", "A", "0", "-", "_", " ", "."}

\* the character class [a-z0-9-_]
SlugSafe == {"a", "b", "c", "d", "e", "f", "g", "h", "i", "j", "k", "l", "m",
             "n", "o", "p", "q", "r", "s", "t", "u", "v", "w", "x", "y", "z",
             "0", "1", "2", "3", "4", "5", "6", "7", "8", "9", "-", "_"}

UpperLetters == <<"A", "B", "C", "D", "E", "F", "G", "H", "I", "J", "K", "L", "M",
                  "N", "O", "P", "Q", "R", "S", "T", "U", "V", "W", "X", "Y", "Z">>
LowerLetters == <<"a", "b", "c", "d", "e", "f", "g", "h", "i", "j", "k", "l", "m",
                  "n", "o", "p", "q", "r", "s", "t", "u", "v", "w", "x", "y", "z">>

toLowerCase(c) ==
    IF \E i \in 1..Len(UpperLetters) : UpperLetters[i] = c
    THEN LowerLetters[CHOOSE i \in 1..Len(UpperLetters) : UpperLetters[i] = c]
    ELSE c

\* .toLowerCase()
lowerAll(s) == [i \in 1..Len(s) |-> toLowerCase(s[i])]

\* .replace(/[^a-z0-9-_]/g, "-")
replaceUnsafe(s) == [i \in 1..Len(s) |-> IF s[i] \in SlugSafe THEN s[i] ELSE "-"]

\* .replace(/--+/g, "-")
RECURSIVE collapseDashes(_)
collapseDashes(s) ==
    IF Len(s) < 2 THEN s
    ELSE IF s[1] = "-" /\ s[2] = "-" THEN collapseDashes(Tail(s))
    ELSE <<s[1]>> \o collapseDashes(Tail(s))

\* .replace(/^-+/, "")
RECURSIVE trimLeading(_)
trimLeading(s) ==
    IF s # <<>> /\ s[1] = "-" THEN trimLeading(Tail(s)) ELSE s

\* .replace(/-+$/, "")
RECURSIVE trimTrailing(_)
trimTrailing(s) ==
    IF s # <<>> /\ s[Len(s)] = "-" THEN trimTrailing(SubSeq(s, 1, Len(s) - 1)) ELSE s

slugifyNoCollapse(value) ==
    trimTrailing(trimLeading(replaceUnsafe(lowerAll(value))))

slugify(value) ==
    trimTrailing(trimLeading(collapseDashes(replaceUnsafe(lowerAll(value)))))

RECURSIVE StringsUpTo(_)
StringsUpTo(n) ==
    IF n = 0 THEN {<<>>}
    ELSE LET shorter == StringsUpTo(n - 1)
         IN  shorter \cup {Append(s, c) : s \in {t \in shorter : Len(t) = n - 1},
                                          c \in SlugAlphabet}

SlugIdle == slugIn = <<>> /\ slugOut = <<>> /\ slugPc = "idle"

SlugInit == slugIn \in StringsUpTo(MaxSlugLen) /\ slugOut = <<>> /\ slugPc = "input"

SlugApply ==
    /\ slugPc = "input"
    /\ slugOut' = slugify(slugIn)
    /\ slugPc' = "done"
    /\ UNCHANGED <<slugIn, mainVars, detectVars, parseVars, spinVars>>

-----------------------------------------------------------------------------
(* detectPackageManager *)

\* Object.entries(lockfiles): insertion order
LockfileNames == <<"pnpm-lock.yaml", "package-lock.json", "yarn.lock", "bun.lockb">>
LockfileManagers == <<"pnpm", "npm", "yarn", "bun">>

DefaultManager == "pnpm"

\* how many times the parent loop runs at most
ParentLevels == 5

\* a faulty variant: the last matching entry wins instead of the first
lastLockfile(files) ==
    IF \E i \in 1..Len(LockfileNames) : LockfileNames[i] \in files
    THEN CHOOSE i \in 1..Len(LockfileNames) :
            /\ LockfileNames[i] \in files
            /\ \A j \in (i + 1)..Len(LockfileNames) : LockfileNames[j] \notin files
    ELSE 0

\* the inner for loop over Object.entries(lockfiles) in one directory:
\* index of the first lockfile name that exists there, 0 when none does
firstLockfile(files) ==
    IF \E i \in 1..Len(LockfileNames) : LockfileNames[i] \in files
    THEN CHOOSE i \in 1..Len(LockfileNames) :
            /\ LockfileNames[i] \in files
            /\ \A j \in 1..(i - 1) : LockfileNames[j] \notin files
    ELSE 0

\* the parent loop: dirs[level] is `current`, i the loop counter.
\* path.dirname(current) = current exactly at the root, the last of dirs.
RECURSIVE scanParents(_, _, _)
scanParents(dirs, level, i) ==
    IF i >= ParentLevels \/ level >= Len(dirs) THEN DefaultManager
    ELSE LET hit == firstLockfile(dirs[level + 1])
         IN  IF hit # 0 THEN LockfileManagers[hit]
             ELSE scanParents(dirs, level + 1, i + 1)

\* dirs[1] is the files of cwd, dirs[2] of its parent, ..., the last of the root
detectPackageManager(dirs) ==
    LET hit == firstLockfile(dirs[1])
    IN  IF hit # 0 THEN LockfileManagers[hit] ELSE scanParents(dirs, 1, 0)

getInstallCommand(pm) == <<pm, "install">>

LockfileSet == {LockfileNames[i] : i \in 1..Len(LockfileNames)}

\* lockfiles placed in the chain so far
RECURSIVE placedCount(_)
placedCount(dirs) ==
    IF dirs = <<>> THEN 0 ELSE Cardinality(dirs[1]) + placedCount(Tail(dirs))

DetectIdle == chain = <<>> /\ detected = "" /\ detectPc = "idle"

DetectInit ==
    /\ \E d \in 1..MaxDepth : chain = [l \in 1..d |-> {}]
    /\ detected = ""
    /\ detectPc = "setup"

\* the environment: one more lockfile somewhere on the chain
PlaceLockfile ==
    /\ detectPc = "setup"
    /\ placedCount(chain) < MaxLockfiles
    /\ \E l \in 1..Len(chain), f \in LockfileSet :
          /\ f \notin chain[l]
          /\ chain' = [chain EXCEPT ![l] = @ \cup {f}]
    /\ UNCHANGED <<detected, detectPc, mainVars, slugVars, parseVars, spinVars>>

Detect ==
    /\ detectPc = "setup"
    /\ detected' = detectPackageManager(chain)
    /\ detectPc' = "done"
    /\ UNCHANGED <<chain, mainVars, slugVars, parseVars, spinVars>>

-----------------------------------------------------------------------------
(* parseArgs *)

Flag(k) == [dd |-> TRUE, body |-> k]
Word(w) == [dd |-> FALSE, body |-> w]

\* the tokens a command line of the model is made of
Tokens == {Flag("help"), Flag("h"), Word("-h"), Flag("yes"), Flag("force"), Flag("install"),
           Flag("no-install"), Flag("template"), Flag("runtime"), Flag("dir"),
           Word("basic"), Word("deno")}

\* the boolean true that parseArgs stores for a flag without a value
BoolTrue == "<true>"

SetKey(f, k, v) == [x \in DOMAIN f \cup {k} |-> IF x = k THEN v ELSE f[x]]

NoFlags == [k \in {} |-> BoolTrue]

\* a token as a condition: every string but the empty one is truthy
Truthy(tok) == tok.dd \/ tok.body # ""

\* what a run of parseArgs that threw is left with
Thrown(name) == [threw |-> name]

\* the for loop of parseArgs from index i on.  The result object holds the
\* positional list under the key "positional": a --positional flag replaces
\* the list by the flag's value, and the next push on it throws.
RECURSIVE parseFrom(_, _, _)
parseFrom(av, i, acc) ==
    IF i > Len(av) THEN acc
    ELSE LET arg == av[i]
         IN  IF ~arg.dd
             THEN IF "positional" \in DOMAIN acc.flags
                  THEN Thrown("TypeError")
                  ELSE parseFrom(av, i + 1,
                                 [acc EXCEPT !.positional = Append(@, arg.body)])
             ELSE LET value == IF /\ i + 1 <= Len(av)
                                  /\ Truthy(av[i + 1])
                                  /\ ~av[i + 1].dd
                               THEN av[i + 1].body
                               ELSE BoolTrue
                      step == IF value = BoolTrue THEN 1 ELSE 2
                  IN  parseFrom(av, i + step,
                         [flags |-> SetKey(acc.flags, arg.body, value),
                          positional |-> IF arg.body = "positional" THEN <<>>
                                         ELSE acc.positional])

parseArgs(av) == parseFrom(av, 1, [flags |-> NoFlags, positional |-> <<>>])

\* args[k] is truthy: every value parseArgs stores is true or a non-empty string
Given(a, k) == k \in DOMAIN a.flags

RECURSIVE VectorsOver(_, _)
VectorsOver(tokens, n) ==
    IF n = 0 THEN {<<>>}
    ELSE LET shorter == VectorsOver(tokens, n - 1)
         IN  shorter \cup {Append(a, t) : a \in {b \in shorter : Len(b) = n - 1},
                                          t \in tokens}

\* the tokens parseArgs is tried on: a known flag, an unknown one, the flag
\* named like the list of the result, the bare prefix, words, the empty word
ParseTokens == {Flag("dir"), Flag("verbose"), Flag("positional"), Flag(""),
                Word("basic"), Word("-h"), Word("")}

NotParsed == [threw |-> ""]

ParseIdle == argvIn = <<>> /\ parsed = NotParsed /\ parsePc = "idle"

ParseInit ==
    /\ argvIn \in VectorsOver(ParseTokens, MaxParseArgs)
    /\ parsed = NotParsed
    /\ parsePc = "input"

Parse ==
    /\ parsePc = "input"
    /\ parsed' = parseArgs(argvIn)
    /\ parsePc' = "done"
    /\ UNCHANGED <<argvIn, mainVars, slugVars, detectVars, spinVars>>

RECURSIVE ArgVectors(_)
ArgVectors(n) ==
    IF n = 0 THEN {<<>>}
    ELSE LET shorter == ArgVectors(n - 1)
         IN  shorter \cup {Append(a, t) : a \in {b \in shorter : Len(b) = n - 1},
                                          t \in Tokens}

-----------------------------------------------------------------------------
(* The file system *)

NoNode == [kind |-> "none"]
TextFile(t) == [kind |-> "file", data |-> [text |-> t]]
JsonFile(d) == [kind |-> "file", data |-> [doc |-> d]]
Dir(entries) == [kind |-> "dir", entries |-> entries]
NoEntries == [n \in {} |-> NoNode]
EmptyDir == Dir(NoEntries)

IsDir(node) == node.kind = "dir"
IsFile(node) == node.kind = "file"
\* JSON.parse succeeds on the file's content
IsJson(node) == IsFile(node) /\ "doc" \in DOMAIN node.data

Names(node) == IF IsDir(node) THEN DOMAIN node.entries ELSE {}
Child(node, n) == IF n \in Names(node) THEN node.entries[n] ELSE NoNode

\* fs.existsSync(path.join(dir, ...path))
RECURSIVE existsSync(_, _)
existsSync(node, path) ==
    IF path = <<>> THEN node.kind # "none"
    ELSE existsSync(Child(node, path[1]), Tail(path))

\* the node at a relative path
RECURSIVE nodeAt(_, _)
nodeAt(node, path) ==
    IF path = <<>> THEN node ELSE nodeAt(Child(node, path[1]), Tail(path))

isEmptyDir(node) ==
    IF node.kind = "none" THEN TRUE ELSE Names(node) = {}

\* the relative paths of the files under a directory (the code returns them
\* sorted by name; the model keeps the set)
RECURSIVE listFiles(_)
listFiles(node) ==
    IF ~IsDir(node) THEN {}
    ELSE UNION {IF IsDir(node.entries[n])
                THEN {<<n>> \o p : p \in listFiles(node.entries[n])}
                ELSE {<<n>>} : n \in Names(node)}

\* copyDir throws: mkdirSync on a path that is a file, or copyFileSync onto a
\* directory
RECURSIVE copyFails(_, _)
copyFails(src, dest) ==
    \/ IsFile(dest)
    \/ \E n \in Names(src) :
          IF IsDir(src.entries[n])
          THEN copyFails(src.entries[n], Child(dest, n))
          ELSE IsDir(Child(dest, n))

\* copyDir restricted to the entries `only` of src, when nothing fails:
\* the tree at dest afterwards
RECURSIVE copyEntries(_, _, _)
copyEntries(src, dest, only) ==
    Dir([n \in Names(dest) \cup only |->
            IF n \in only
            THEN IF IsDir(src.entries[n])
                 THEN copyEntries(src.entries[n], Child(dest, n),
                                  Names(src.entries[n]))
                 ELSE src.entries[n]
            ELSE dest.entries[n]])

\* a faulty variant: a copy that never replaces a file that is there
RECURSIVE copyDirKeep(_, _)
copyDirKeep(src, dest) ==
    Dir([n \in Names(dest) \cup Names(src) |->
            IF n \in Names(src)
            THEN IF IsDir(src.entries[n])
                 THEN copyDirKeep(src.entries[n], Child(dest, n))
                 ELSE IF n \in Names(dest) THEN dest.entries[n] ELSE src.entries[n]
            ELSE dest.entries[n]])

copyDir(src, dest) == copyEntries(src, dest, Names(src))

WithEntry(dir, n, node) ==
    Dir([x \in Names(dir) \cup {n} |-> IF x = n THEN node ELSE dir.entries[x]])

\* the trees copyDir can leave at dest when it throws.  readdirSync's order is
\* the file system's: any set of the entries that copy cleanly may have been
\* copied before the entry that throws, and none after it.
RECURSIVE partialCopies(_, _)
partialCopies(src, dest) ==
    IF IsFile(dest) THEN {dest}
    ELSE LET failing == {n \in Names(src) :
                            IF IsDir(src.entries[n])
                            THEN copyFails(src.entries[n], Child(dest, n))
                            ELSE IsDir(Child(dest, n))}
         IN  UNION {
               {WithEntry(copyEntries(src, dest, S), f, pf) :
                   pf \in IF IsDir(src.entries[f])
                          THEN partialCopies(src.entries[f], Child(dest, f))
                          ELSE {Child(dest, f)}}
               : S \in SUBSET (Names(src) \ failing), f \in failing}

-----------------------------------------------------------------------------
(* Fixtures: the templates shipped with the tool and what the working       *)
(* directory may hold before the run                                        *)

TEMPLATES == {"basic", "tools-only", "full"}
RUNTIMES == {"node", "deno"}

DzxDep == "dependencies.@dwizi/dzx"

BasicTemplate ==
    Dir(("mcp.json" :> JsonFile([name |-> "template", runtime |-> "node",
                                 version |-> "1"]))
        @@ ("package.json" :> JsonFile(("name" :> "template") @@ (DzxDep :> "^0.0.0")))
        @@ ("src" :> Dir("server.ts" :> TextFile("template server"))))

ToolsOnlyTemplate ==
    Dir("tools" :> Dir("hello.ts" :> TextFile("template tool")))

\* path.join(templatesRoot, template): "full" is not installed
templateDirOf(t) ==
    CASE t = "basic"      -> BasicTemplate
      [] t = "tools-only" -> ToolsOnlyTemplate
      [] OTHER            -> NoNode

UserDir ==
    Dir(("notes.txt" :> TextFile("user notes"))
        @@ ("mcp.json" :> JsonFile([name |-> "old", runtime |-> "deno",
                                    version |-> "9"])))

\* "src" is a file here, a directory in the basic template; package.json is
\* not JSON
ClashDir ==
    Dir(("src" :> TextFile("user src"))
        @@ ("package.json" :> TextFile("not json")))

PreTrees == {NoNode, EmptyDir, UserDir, ClashDir}

DefaultDir == "my-agent"

\* the directory names a run of the model can resolve
DirNames == {DefaultDir, "basic", "deno", "-h", "My App"}

\* the characters of a directory name
Chars(name) ==
    CASE name = "my-agent" -> <<"m", "y", "-", "a", "g", "e", "n", "t">>
      [] name = "basic"    -> <<"b", "a", "s", "i", "c">>
      [] name = "deno"     -> <<"d", "e", "n", "o">>
      [] name = "-h"       -> <<"-", "h">>
      [] name = "My App"   -> <<"M", "y", " ", "A", "p", "p">>
      [] name = "my-app"   -> <<"m", "y", "-", "a", "p", "p">>
      [] name = "h"        -> <<"h">>

KnownStrings == DirNames \cup {"my-app", "h"}

\* the string made of the given characters
Str(chars) == CHOOSE n \in KnownStrings : Chars(n) = chars

\* the version getDzxVersion can return: the installed one, or the fallback
DzxVersions == {"1.2.3", "*"}

\* the lockfiles above the working directory that a run can meet
AncestorChains == {<<{}>>, <<{"yarn.lock"}, {"package-lock.json"}>>}

Caret(version) ==
    CASE version = "1.2.3" -> "^1.2.3"
      [] version = "*"     -> "^*"

-----------------------------------------------------------------------------
(* main *)

NoError == [message |-> "", detail |-> <<>>]

\* the symbol clack returns for a cancelled prompt
Cancel == "<cancel>"

Asked(prompt, answer) == [prompt |-> prompt, answer |-> answer]

force == Given(args, "force")
isYes == Given(args, "yes")
shouldInstall ==
    IF Given(args, "install") THEN TRUE
    ELSE IF Given(args, "no-install") THEN FALSE
    ELSE TRUE
helpRequested == Given(args, "help") \/ Given(args, "h")

\* args.dir ?? args.positional[0]; "" stands for undefined
dirArg ==
    IF Given(args, "dir") THEN args.flags["dir"]
    ELSE IF args.positional # <<>> THEN args.positional[1]
    ELSE ""

stepLabels ==
    <<"Validating destination", "Copying template", "Configuring manifest">>
    \o (IF shouldInstall THEN <<"Installing dependencies">> ELSE <<>>)
    \o <<"Finalizing">>

\* main().catch: the error is printed and the process exits with 1
Throw(msg, detail) ==
    /\ error' = [message |-> msg, detail |-> detail]
    /\ exitCode' = 1
    /\ pc' = "exited"

\* clack.cancel("Aborted."); process.exit(1)
Abort ==
    /\ printed' = Append(printed, "Aborted.")
    /\ exitCode' = 1
    /\ pc' = "exited"
    /\ UNCHANGED error

Goto(next) ==
    /\ pc' = next
    /\ UNCHANGED <<error, exitCode>>

\* a faulty variant: the record and the line carry the label that begins
StepRecordsNew(nextMessage) ==
    /\ stepTimes' = IF lastStep # "" THEN Append(stepTimes, nextMessage) ELSE stepTimes
    /\ printed' = IF lastStep # "" THEN Append(printed, nextMessage) ELSE printed
    /\ lastStep' = nextMessage

\* step(message): the record and the finished line of the previous label
Step(nextMessage) ==
    /\ stepTimes' = IF lastStep # "" THEN Append(stepTimes, lastStep) ELSE stepTimes
    /\ printed' = IF lastStep # "" THEN Append(printed, lastStep) ELSE printed
    /\ lastStep' = nextMessage

MainIdle ==
    /\ args = parseArgs(<<>>) /\ pc = "idle" /\ targetDir = "" /\ template = ""
    /\ runtime = "" /\ fs = <<>> /\ fs0 = <<>> /\ prompts = <<>>
    /\ printed = <<>> /\ spawned = <<>> /\ childExit = "" /\ dzxVersion = ""
    /\ stepTimes = <<>>
    /\ lastStep = "" /\ error = NoError /\ exitCode = 0

MainInit ==
    /\ \E av \in ArgVectors(MaxArgs) : args = parseArgs(av)
    /\ pc = "start"
    /\ targetDir = "" /\ template = "" /\ runtime = ""
    /\ \E pre \in PreTrees : fs = [d \in DirNames |-> pre]
    /\ fs0 = fs
    /\ prompts = <<>> /\ printed = <<>> /\ spawned = <<>> /\ childExit = ""
    /\ dzxVersion = "" /\ stepTimes = <<>> /\ lastStep = ""
    /\ error = NoError /\ exitCode = 0

\* lines 273-306: parse, the help text, the intro, the first resolution of the
\* target directory
Start ==
    /\ pc = "start"
    /\ IF helpRequested
       THEN /\ printed' = Append(printed, "usage")
            /\ pc' = "exited"
            /\ UNCHANGED <<targetDir, error, exitCode>>
       ELSE /\ printed' = Append(printed, "intro")
            /\ IF dirArg = BoolTrue
               THEN \* path.resolve(cwd, true) throws ERR_INVALID_ARG_TYPE
                    /\ Throw("TypeError", <<"dir">>)
                    /\ UNCHANGED targetDir
               ELSE /\ targetDir' = IF dirArg # "" THEN dirArg ELSE DefaultDir
                    /\ Goto(IF isYes THEN "template" ELSE "dir")
    /\ UNCHANGED <<slugVars, detectVars, parseVars, spinVars, args, childExit, template, runtime, fs, fs0, prompts, spawned,
                   dzxVersion, stepTimes, lastStep>>

\* what the user can leave in the directory prompt: nothing, the initial value,
\* another name
DirAnswers == {"", targetDir, "My App"}

\* lines 307-317: the directory prompt
PromptDir ==
    /\ pc = "dir"
    /\ \/ /\ prompts' = Append(prompts, Asked("dir", Cancel))
          /\ Abort
          /\ UNCHANGED targetDir
       \/ \E dirResponse \in DirAnswers :
             /\ prompts' = Append(prompts, Asked("dir", dirResponse))
             /\ targetDir' = IF dirResponse # "" THEN dirResponse ELSE DefaultDir
             /\ Goto("template")
             /\ UNCHANGED printed
    /\ UNCHANGED <<slugVars, detectVars, parseVars, spinVars, args, childExit, template, runtime, fs, fs0, spawned, dzxVersion,
                   stepTimes, lastStep>>

\* lines 319-335: the template, from the flag, the default of --yes, or the
\* prompt
ResolveTemplate ==
    /\ pc = "template"
    /\ IF Given(args, "template") \/ isYes
       THEN /\ template' = IF Given(args, "template") THEN args.flags["template"]
                           ELSE "basic"
            /\ Goto("runtime")
            /\ UNCHANGED <<prompts, printed>>
       ELSE \/ /\ prompts' = Append(prompts, Asked("template", Cancel))
               /\ Abort
               /\ UNCHANGED template
            \/ \E templateResponse \in TEMPLATES :
                  /\ prompts' = Append(prompts, Asked("template", templateResponse))
                  /\ template' = templateResponse
                  /\ Goto("runtime")
                  /\ UNCHANGED printed
    /\ UNCHANGED <<slugVars, detectVars, parseVars, spinVars, args, childExit, targetDir, runtime, fs, fs0, spawned, dzxVersion,
                   stepTimes, lastStep>>

\* lines 337-352: the runtime, likewise
ResolveRuntime ==
    /\ pc = "runtime"
    /\ IF Given(args, "runtime") \/ isYes
       THEN /\ runtime' = IF Given(args, "runtime") THEN args.flags["runtime"]
                          ELSE "node"
            /\ Goto("validate")
            /\ UNCHANGED <<prompts, printed>>
       ELSE \/ /\ prompts' = Append(prompts, Asked("runtime", Cancel))
               /\ Abort
               /\ UNCHANGED runtime
            \/ \E runtimeResponse \in RUNTIMES :
                  /\ prompts' = Append(prompts, Asked("runtime", runtimeResponse))
                  /\ runtime' = runtimeResponse
                  /\ Goto("validate")
                  /\ UNCHANGED printed
    /\ UNCHANGED <<slugVars, detectVars, parseVars, spinVars, args, childExit, targetDir, template, fs, fs0, spawned, dzxVersion,
                   stepTimes, lastStep>>

\* a faulty variant: the destination is not checked
ValidateNoEmptyCheck ==
    /\ pc = "validate"
    /\ IF template \notin TEMPLATES
       THEN Throw("Unknown template", <<template>>)
       ELSE IF runtime \notin RUNTIMES
       THEN Throw("Unknown runtime", <<runtime>>)
       ELSE IF ~existsSync(templateDirOf(template), <<>>)
       THEN Throw("Template not found", <<template>>)
       ELSE Goto(IF force /\ ~isYes THEN "confirm" ELSE "prepare")
    /\ UNCHANGED <<slugVars, detectVars, parseVars, spinVars, args, childExit, targetDir, template, runtime, fs, fs0, prompts, printed,
                   spawned, dzxVersion, stepTimes, lastStep>>

\* a faulty variant: the template and the runtime are not checked
ValidateNoEnumCheck ==
    /\ pc = "validate"
    /\ IF ~force /\ ~isEmptyDir(fs[targetDir])
       THEN Throw("Target directory is not empty", <<targetDir>>)
       ELSE Goto(IF force /\ ~isYes THEN "confirm" ELSE "prepare")
    /\ UNCHANGED <<slugVars, detectVars, parseVars, spinVars, args, childExit, targetDir, template, runtime, fs, fs0, prompts, printed,
                   spawned, dzxVersion, stepTimes, lastStep>>

\* lines 354-372: the closed sets, the destination, the template directory
Validate ==
    /\ pc = "validate"
    /\ IF template \notin TEMPLATES
       THEN Throw("Unknown template", <<template>>)
       ELSE IF runtime \notin RUNTIMES
       THEN Throw("Unknown runtime", <<runtime>>)
       ELSE IF ~force /\ ~isEmptyDir(fs[targetDir])
       THEN Throw("Target directory is not empty", <<targetDir>>)
       ELSE IF ~existsSync(templateDirOf(template), <<>>)
       THEN Throw("Template not found", <<template>>)
       ELSE Goto(IF force /\ ~isYes THEN "confirm" ELSE "prepare")
    /\ UNCHANGED <<slugVars, detectVars, parseVars, spinVars, args, childExit, targetDir, template, runtime, fs, fs0, prompts, printed,
                   spawned, dzxVersion, stepTimes, lastStep>>

\* a faulty variant: a declined confirmation is taken for a yes
ConfirmIgnoresNo ==
    /\ pc = "confirm"
    /\ \/ /\ prompts' = Append(prompts, Asked("confirm", Cancel))
          /\ Abort
       \/ \E confirmation \in BOOLEAN :
             /\ prompts' = Append(prompts,
                               Asked("confirm", IF confirmation THEN "yes" ELSE "no"))
             /\ Goto("prepare")
             /\ UNCHANGED printed
    /\ UNCHANGED <<slugVars, detectVars, parseVars, spinVars, args, childExit, targetDir, template, runtime, fs, fs0, spawned,
                   dzxVersion, stepTimes, lastStep>>

\* lines 374-383: the overwrite confirmation
Confirm ==
    /\ pc = "confirm"
    /\ \/ /\ prompts' = Append(prompts, Asked("confirm", Cancel))
          /\ Abort
       \/ \E confirmation \in BOOLEAN :
             /\ prompts' = Append(prompts,
                               Asked("confirm", IF confirmation THEN "yes" ELSE "no"))
             /\ IF confirmation = FALSE
                THEN Abort
                ELSE Goto("prepare") /\ UNCHANGED printed
    /\ UNCHANGED <<slugVars, detectVars, parseVars, spinVars, args, childExit, targetDir, template, runtime, fs, fs0, spawned,
                   dzxVersion, stepTimes, lastStep>>

\* lines 385-452: the version lookup, the banner, the first step and the
\* collision check of a run without --force
Prepare ==
    /\ pc = "prepare"
    /\ \E version \in DzxVersions : dzxVersion' = version
    /\ stepTimes' = stepTimes
    /\ lastStep' = "Validating destination"
    /\ printed' = Append(printed, "banner")
    /\ LET collisions == {file \in listFiles(templateDirOf(template)) :
                             existsSync(fs[targetDir], file)}
       IN  IF ~force /\ collisions # {}
           THEN Throw("Refusing to overwrite existing files", <<targetDir>>)
           ELSE Goto("copy")
    /\ UNCHANGED <<slugVars, detectVars, parseVars, spinVars, args, childExit, targetDir, template, runtime, fs, fs0, prompts, spawned>>

\* lines 454-455: the copy
CopyTemplate ==
    /\ pc = "copy"
    /\ Step("Copying template")
    /\ LET src == templateDirOf(template)
           dest == fs[targetDir]
       IN  IF copyFails(src, dest)
           THEN /\ \E left \in partialCopies(src, dest) :
                      fs' = [fs EXCEPT ![targetDir] = left]
                /\ Throw("copy failed", <<targetDir>>)
           ELSE /\ fs' = [fs EXCEPT ![targetDir] = copyDir(src, dest)]
                /\ Goto("manifest")
    /\ UNCHANGED <<slugVars, detectVars, parseVars, spinVars, args, childExit, targetDir, template, runtime, fs0, prompts, spawned,
                   dzxVersion>>

\* a faulty variant: the name is the directory's base name as it is
patchManifestRawName(doc, dir, rt) ==
    SetKey(SetKey(doc, "name", dir), "runtime", rt)

\* lines 460-463: mcp.json with its name and runtime set
patchManifest(doc, dir, rt) ==
    SetKey(SetKey(doc, "name", Str(slugify(Chars(dir)))), "runtime", rt)

\* lines 469-473: package.json with the dependency on @dwizi/dzx pinned
patchPackage(doc, version) ==
    IF DzxDep \in DOMAIN doc THEN SetKey(doc, DzxDep, Caret(version)) ELSE doc

\* lines 457-474: the two manifests
ConfigureManifest ==
    /\ pc = "manifest"
    /\ Step("Configuring manifest")
    /\ LET dest == fs[targetDir]
           mcp == Child(dest, "mcp.json")
           patched == IF IsJson(mcp)
                      THEN WithEntry(dest, "mcp.json",
                             JsonFile(patchManifest(mcp.data.doc, targetDir, runtime)))
                      ELSE dest
           pkg == Child(patched, "package.json")
       IN  IF existsSync(dest, <<"mcp.json">>) /\ ~IsJson(mcp)
           THEN /\ Throw("SyntaxError", <<"mcp.json">>)
                /\ UNCHANGED fs
           ELSE IF existsSync(patched, <<"package.json">>) /\ ~IsJson(pkg)
           THEN /\ Throw("SyntaxError", <<"package.json">>)
                /\ fs' = [fs EXCEPT ![targetDir] = patched]
           ELSE /\ fs' = [fs EXCEPT ![targetDir] =
                            IF IsJson(pkg)
                            THEN WithEntry(patched, "package.json",
                                   JsonFile(patchPackage(pkg.data.doc, dzxVersion)))
                            ELSE patched]
                /\ Goto("install")
    /\ UNCHANGED <<slugVars, detectVars, parseVars, spinVars, args, childExit, targetDir, template, runtime, fs0, prompts, spawned,
                   dzxVersion>>

\* a faulty variant: the install is started whatever the flags say
InstallAlways ==
    /\ pc = "install"
    /\ Step("Installing dependencies")
    /\ \E above \in AncestorChains :
          spawned' = Append(spawned, getInstallCommand(
                         detectPackageManager(<<Names(fs[targetDir])>> \o above)))
    /\ Goto("child")
    /\ UNCHANGED <<slugVars, detectVars, parseVars, spinVars, args, childExit, targetDir, template, runtime, fs, fs0, prompts,
                   dzxVersion>>

\* lines 476-485: the install is started, or skipped
Install ==
    /\ pc = "install"
    /\ IF ~shouldInstall
       THEN /\ Goto("finalize")
            /\ UNCHANGED <<spawned, stepTimes, lastStep, printed>>
       ELSE /\ Step("Installing dependencies")
            /\ IF ~existsSync(fs[targetDir], <<"package.json">>)
               THEN /\ Throw("Missing package.json in template", <<>>)
                    /\ UNCHANGED spawned
               ELSE /\ \E above \in AncestorChains :
                          spawned' = Append(spawned, getInstallCommand(
                              detectPackageManager(<<Names(fs[targetDir])>> \o above)))
                    /\ Goto("child")
    /\ UNCHANGED <<slugVars, detectVars, parseVars, spinVars, args, childExit, targetDir, template, runtime, fs, fs0, prompts,
                   dzxVersion>>

\* what the package manager leaves in the project
NodeModules == Dir("dzx" :> TextFile("installed"))

\* a faulty variant: a failed install removes the project
ChildDoneRollback ==
    /\ pc = "child"
    /\ \E code \in {0, 1} :
          IF code = 0
          THEN /\ childExit' = "exit 0"
               /\ fs' = [fs EXCEPT ![targetDir] = WithEntry(@, "node_modules", NodeModules)]
               /\ Goto("finalize")
          ELSE /\ childExit' = "exit 1"
               /\ fs' = [fs EXCEPT ![targetDir] = NoNode]
               /\ Throw("Dependency installation failed", spawned[Len(spawned)])
    /\ UNCHANGED <<slugVars, detectVars, parseVars, spinVars, args, targetDir, template, runtime, fs0, prompts, printed,
                   spawned, dzxVersion, stepTimes, lastStep>>

\* lines 135-145 and 485-489: the child exits or cannot be spawned
ChildDone ==
    /\ pc = "child"
    /\ \/ \* child.on("exit", code), code = 0
          /\ childExit' = "exit 0"
          /\ fs' = [fs EXCEPT ![targetDir] = WithEntry(@, "node_modules", NodeModules)]
          /\ Goto("finalize")
       \/ \* child.on("exit", code), code # 0: with or without what it installed
          /\ childExit' = "exit 1"
          /\ \E wrote \in BOOLEAN :
                fs' = IF wrote
                      THEN [fs EXCEPT ![targetDir] = WithEntry(@, "node_modules", NodeModules)]
                      ELSE fs
          /\ Throw("Dependency installation failed", spawned[Len(spawned)])
       \/ \* child.on("error", err)
          /\ childExit' = "error"
          /\ UNCHANGED fs
          /\ Throw("Dependency installation failed", spawned[Len(spawned)])
    /\ UNCHANGED <<slugVars, detectVars, parseVars, spinVars, args, targetDir, template, runtime, fs0, prompts, printed,
                   spawned, dzxVersion, stepTimes, lastStep>>

\* lines 492-520: the last step, the flush of its record, the summary
Finalize ==
    /\ pc = "finalize"
    /\ stepTimes' = stepTimes \o <<lastStep, "Finalizing">>
    /\ lastStep' = "Finalizing"
    /\ printed' = printed \o <<lastStep, "Finalizing", "Project ready", "next">>
    /\ pc' = "exited"
    /\ UNCHANGED <<slugVars, detectVars, parseVars, spinVars, args, childExit, targetDir, template, runtime, fs, fs0, prompts, spawned,
                   dzxVersion, error, exitCode>>

Next ==
    \/ Start
    \/ PromptDir
    \/ ResolveTemplate
    \/ ResolveRuntime
    \/ Validate
    \/ Confirm
    \/ Prepare
    \/ CopyTemplate
    \/ ConfigureManifest
    \/ Install
    \/ ChildDone
    \/ Finalize

-----------------------------------------------------------------------------
(* createSpinner *)

\* let timer = null
NoTimer == 0

SpinIdle ==
    /\ enabled = FALSE /\ timer = NoTimer /\ message = "" /\ frameIndex = 0
    /\ intervals = {} /\ handles = 0 /\ stdout = <<>> /\ calls = 0
    /\ lastCall = ""

\* const frames: the four half-filled circles, by name
frames == <<"left", "top", "right", "bottom">>

\* process.stdout.write("\r\x1b[2K")
EraseLine == [frame |-> "", text |-> "erase"]

\* the controller's closure and what it did outside it, as one record
Controller ==
    [timer |-> timer, message |-> message, frameIndex |-> frameIndex,
     intervals |-> intervals, handles |-> handles, stdout |-> stdout]

clearLine(st) ==
    IF ~enabled THEN st
    ELSE [st EXCEPT !.stdout = Append(@, EraseLine)]

render(st) ==
    IF ~enabled THEN st
    ELSE [st EXCEPT !.frameIndex = @ + 1,
                    !.stdout = Append(@, [frame |-> frames[(st.frameIndex % Len(frames)) + 1],
                                          text |-> st.message])]

\* timer = setInterval(render, 80): a handle no earlier call returned
setInterval(st) ==
    [st EXCEPT !.handles = @ + 1,
               !.timer = st.handles + 1,
               !.intervals = @ \cup {st.handles + 1}]

\* clearInterval(timer)
clearInterval(st) == [st EXCEPT !.intervals = @ \ {st.timer}]

\* a faulty variant: start does not look at the timer it holds
startAgain(st, nextMessage) ==
    LET named == [st EXCEPT !.message = nextMessage]
    IN  IF ~enabled THEN named ELSE setInterval(render(named))

start(st, nextMessage) ==
    LET named == [st EXCEPT !.message = nextMessage]
    IN  IF ~enabled \/ named.timer # NoTimer THEN named
        ELSE setInterval(render(named))

update(st, nextMessage) ==
    LET named == [st EXCEPT !.message = nextMessage]
    IN  IF ~enabled \/ named.timer = NoTimer THEN named
        ELSE render(named)

pause(st) ==
    IF ~enabled \/ st.timer = NoTimer THEN st
    ELSE clearLine([clearInterval(st) EXCEPT !.timer = NoTimer])

resume(st) ==
    IF ~enabled \/ st.timer # NoTimer \/ st.message = "" THEN st
    ELSE setInterval(render(st))

stop(st) == [pause(st) EXCEPT !.message = ""]

\* the labels the controller is called with
SpinLabels == {"", "Copying template", "Finalizing"}

SpinInit ==
    /\ enabled \in BOOLEAN
    /\ timer = NoTimer /\ message = "" /\ frameIndex = 0
    /\ intervals = {} /\ handles = 0 /\ stdout = <<>> /\ calls = 0
    /\ lastCall = ""

\* one call of the controller, or one tick, has brought it to st
Called(name, st) ==
    /\ calls' = calls + 1
    /\ lastCall' = name
    /\ timer' = st.timer /\ message' = st.message /\ frameIndex' = st.frameIndex
    /\ intervals' = st.intervals /\ handles' = st.handles /\ stdout' = st.stdout
    /\ UNCHANGED <<enabled, mainVars, slugVars, detectVars, parseVars>>

CallStart ==
    /\ calls < MaxCalls
    /\ \E nextMessage \in SpinLabels : Called("start", start(Controller, nextMessage))

CallUpdate ==
    /\ calls < MaxCalls
    /\ \E nextMessage \in SpinLabels : Called("update", update(Controller, nextMessage))

CallPause ==
    /\ calls < MaxCalls
    /\ Called("pause", pause(Controller))

CallResume ==
    /\ calls < MaxCalls
    /\ Called("resume", resume(Controller))

CallStop ==
    /\ calls < MaxCalls
    /\ Called("stop", stop(Controller))

\* 80 ms have passed on an active interval: its callback, render, runs
Tick ==
    /\ calls < MaxCalls
    /\ intervals # {}
    /\ Called("tick", render(Controller))

-----------------------------------------------------------------------------
(* The specifications *)

Init == MainInit /\ SlugIdle /\ DetectIdle /\ ParseIdle /\ SpinIdle
Spec == Init /\ [][Next]_vars

InitSlug == MainIdle /\ SlugInit /\ DetectIdle /\ ParseIdle /\ SpinIdle
NextSlug == SlugApply
SpecSlug == InitSlug /\ [][NextSlug]_vars

InitDetect == MainIdle /\ SlugIdle /\ DetectInit /\ ParseIdle /\ SpinIdle
NextDetect == PlaceLockfile \/ Detect
SpecDetect == InitDetect /\ [][NextDetect]_vars

InitParse == MainIdle /\ SlugIdle /\ DetectIdle /\ ParseInit /\ SpinIdle
NextParse == Parse
SpecParse == InitParse /\ [][NextParse]_vars

InitSpinner == MainIdle /\ SlugIdle /\ DetectIdle /\ ParseIdle /\ SpinInit
NextSpinner ==
    \/ CallStart
    \/ CallUpdate
    \/ CallPause
    \/ CallResume
    \/ CallStop
    \/ Tick
SpecSpinner == InitSpinner /\ [][NextSpinner]_vars

-----------------------------------------------------------------------------
(* Vocabulary of the properties *)

Exited == pc = "exited"

\* the run got to the end of main()
Succeeded == Exited /\ exitCode = 0 /\ error = NoError /\ "Project ready" \in
                 {printed[i] : i \in 1..Len(printed)}

Aborted == "Aborted." \in {printed[i] : i \in 1..Len(printed)}

\* the Error kinds by the messages that carry them
UnknownOption == {"Unknown template", "Unknown runtime"}
DirectoryNotEmpty == "Target directory is not empty"
InstallFailed == "Dependency installation failed"

\* the destination the run resolved, as the run found it and as it is now
DestBefore == IF targetDir = "" THEN NoNode ELSE fs0[targetDir]
DestNow == IF targetDir = "" THEN NoNode ELSE fs[targetDir]
TemplateDir == templateDirOf(template)

\* nothing outside the process changed: no file, no child
NoSideEffects == fs = fs0 /\ spawned = <<>>

\* the token is somewhere in the argument vector: parseArgs keeps every token
\* as a key, as a value or as a positional
WordPresent(w) ==
    \/ w \in {args.positional[i] : i \in 1..Len(args.positional)}
    \/ w \in {args.flags[k] : k \in DOMAIN args.flags}

\* the steps whose record has been pushed: they are over
StepsOver == {stepTimes[i] : i \in 1..Len(stepTimes)}

\* the slug of each directory name of the model, worked out by hand
ExpectedName(dir) ==
    CASE dir = "my-agent" -> "my-agent"
      [] dir = "basic"    -> "basic"
      [] dir = "deno"     -> "deno"
      [] dir = "-h"       -> "h"
      [] dir = "My App"   -> "my-app"

-----------------------------------------------------------------------------
(* C1 *)

\* C1, as stated: a run without --force (no prompt of which is cancelled) on a
\* destination that exists and is not empty ends with the DirectoryNotEmpty
\* error and the destination as it was, whatever the other arguments are.
C1_AsStated ==
    (Exited /\ ~force /\ targetDir # "" /\ ~isEmptyDir(DestBefore) /\ ~Aborted)
        => (error.message = DirectoryNotEmpty /\ fs = fs0)

\* a run gets as far as the destination check of line 364
ReachesDestinationCheck ==
    /\ ~helpRequested
    /\ dirArg # BoolTrue
    /\ ~Aborted
    /\ template \in TEMPLATES
    /\ runtime \in RUNTIMES

\* the directory the run is about: the one it resolved or, before that, the
\* one its arguments name
Destination ==
    IF targetDir # "" THEN targetDir
    ELSE IF dirArg \notin {"", BoolTrue} THEN dirArg
    ELSE DefaultDir

\* C1, amended: in a run without --force on a destination that exists and is
\* not empty nothing is ever written and no child is spawned; the run ends
\* with the DirectoryNotEmpty error exactly when it gets as far as the
\* destination check (no help flag, --dir with a value, no prompt cancelled,
\* template and runtime in their closed sets), and with the earlier outcome
\* otherwise: exit code 0 for the help flag, 1 for the rest.
C1_NonEmptyDestinationUntouched ==
    (~force /\ ~isEmptyDir(fs0[Destination]))
        => /\ NoSideEffects
           /\ Exited => /\ exitCode = (IF helpRequested THEN 0 ELSE 1)
                        /\ ReachesDestinationCheck <=> error.message = DirectoryNotEmpty
                        /\ error.message = DirectoryNotEmpty => error.detail = <<targetDir>>

C1_Witness ==
    /\ Exited /\ ~force /\ ~isEmptyDir(DestBefore)
    /\ error.message = DirectoryNotEmpty
    /\ DestBefore = UserDir
    /\ prompts # <<>>

-----------------------------------------------------------------------------
(* C2 *)

\* C2: the file system is changed, and a child spawned, only with the template
\* in TEMPLATES and the runtime in RUNTIMES; a run that resolved a template or
\* a runtime outside its set ends with the UnknownOption error, exit code 1,
\* and has changed nothing.
C2_ClosedSetsBeforeMutation ==
    /\ ~NoSideEffects => (template \in TEMPLATES /\ runtime \in RUNTIMES)
    /\ pc \in {"confirm", "prepare", "copy", "manifest", "install", "child", "finalize"}
          => (template \in TEMPLATES /\ runtime \in RUNTIMES)
    /\ (Exited /\ template # "" /\ runtime # ""
            /\ (template \notin TEMPLATES \/ runtime \notin RUNTIMES))
          => /\ error.message \in UnknownOption
             /\ error.message = "Unknown template" <=> template \notin TEMPLATES
             /\ exitCode = 1
             /\ NoSideEffects

C2_Witness ==
    /\ Exited
    /\ error = [message |-> "Unknown runtime", detail |-> <<"basic">>]
    /\ template = "tools-only"
    /\ DestBefore = NoNode
    /\ fs = fs0

-----------------------------------------------------------------------------
(* C3 *)

CopyPhase == {"copy", "manifest", "install", "child", "finalize"}

\* the answer ends the run: a cancelled prompt, or "no" to the confirmation
Refusal(asked) ==
    asked.answer = Cancel \/ (asked.prompt = "confirm" /\ asked.answer = "no")

\* C3: a cancelled prompt, or a declined overwrite confirmation, ends the run
\* at once with exit code 1 and nothing changed; the confirmation is asked
\* exactly in the runs with --force and without --yes that get to it; and
\* from the copy phase on no prompt is shown and nothing aborts.
C3_Inv ==
    /\ \A i \in 1..Len(prompts) :
          Refusal(prompts[i])
             => /\ i = Len(prompts)
                /\ Exited /\ exitCode = 1 /\ Aborted /\ error = NoError
                /\ NoSideEffects
    /\ Aborted => (prompts # <<>> /\ Refusal(prompts[Len(prompts)]))
    /\ (\E i \in 1..Len(prompts) : prompts[i].prompt = "confirm") => (force /\ ~isYes)
    /\ (pc \in CopyPhase /\ force /\ ~isYes)
          => prompts[Len(prompts)] = Asked("confirm", "yes")
    /\ ~NoSideEffects => ~Aborted

C3_NoPromptOnceCopying ==
    [][(pc \in CopyPhase) => (prompts' = prompts /\ ~Aborted')]_vars

C3_CancelAborts == []C3_Inv /\ C3_NoPromptOnceCopying

C3_Witness ==
    /\ Exited /\ exitCode = 1
    /\ Len(prompts) = 4
    /\ prompts[4] = Asked("confirm", "no")
    /\ DestBefore = UserDir
    /\ fs = fs0

-----------------------------------------------------------------------------
(* C4 *)

\* every file of the template is in the destination: the manifests as the
\* rewrite left them, the others as the template has them
HoldsScaffold ==
    /\ \A p \in listFiles(TemplateDir) :
          /\ existsSync(DestNow, p)
          /\ p \notin {<<"mcp.json">>, <<"package.json">>}
                => nodeAt(DestNow, p) = nodeAt(TemplateDir, p)
    /\ existsSync(TemplateDir, <<"mcp.json">>)
          => LET doc == nodeAt(DestNow, <<"mcp.json">>).data.doc
             IN  doc["runtime"] = runtime /\ doc["name"] = ExpectedName(targetDir)
    /\ existsSync(TemplateDir, <<"package.json">>)
          => nodeAt(DestNow, <<"package.json">>).data.doc[DzxDep] = Caret(dzxVersion)

\* C4: when the install child exits with a non-zero code or cannot be
\* spawned, the run ends with the InstallFailed error naming the command that
\* was spawned, exit code 1, and the destination still holds the copied
\* template with its rewritten manifests.
C4_InstallFailureKeepsScaffold ==
    childExit \in {"exit 1", "error"}
        => /\ Exited /\ exitCode = 1
           /\ error = [message |-> InstallFailed, detail |-> spawned[Len(spawned)]]
           /\ Len(spawned) = 1
           /\ spawned[1][2] = "install"
           /\ ~Succeeded
           /\ HoldsScaffold

C4_Witness ==
    /\ childExit = "error"
    /\ error = [message |-> InstallFailed, detail |-> <<"yarn", "install">>]
    /\ DestBefore = UserDir
    /\ HoldsScaffold

-----------------------------------------------------------------------------
(* C5 *)

\* C5, as stated: a run given --no-install spawns no child process.
C5_AsStated == Given(args, "no-install") => spawned = <<>>

\* C5, amended: installation is requested unless --no-install is given
\* without --install (--install wins when both are given).  A child is spawned
\* only in a run where installation is requested, at most once, and only
\* after the copy and the manifest rewrite are over; a run given --no-install
\* and not --install spawns none, and a run that succeeds with installation
\* requested has spawned one.
C5_SpawnOnlyWhenRequested ==
    /\ (Given(args, "no-install") /\ ~Given(args, "install")) => spawned = <<>>
    /\ spawned # <<>>
          => /\ Given(args, "install") \/ ~Given(args, "no-install")
             /\ Len(spawned) = 1
             /\ pc \in {"child", "finalize", "exited"}
             /\ {"Copying template", "Configuring manifest"} \subseteq StepsOver
             /\ existsSync(DestNow, <<"package.json">>)
    /\ (Succeeded /\ (Given(args, "install") \/ ~Given(args, "no-install")))
          => (Len(spawned) = 1 /\ childExit = "exit 0")

C5_Witness ==
    /\ Succeeded
    /\ Given(args, "no-install") /\ ~Given(args, "install")
    /\ spawned = <<>>
    /\ template = "basic"
    /\ fs # fs0

-----------------------------------------------------------------------------
(* C6 *)

\* copyDir has just returned: the copy is done and the manifests are not yet
\* rewritten
CopyDone == pc = "manifest"

\* C6, as stated: after copyDir the files of the destination are exactly the
\* files of the template.
C6_AsStated == CopyDone => listFiles(DestNow) = listFiles(TemplateDir)

\* C6, amended: after copyDir the files of the destination are the files of
\* the template together with the files the destination held before (the
\* same set as the template's when the destination was missing or empty,
\* which is every run without --force); every file of the template is in the
\* destination with the template's content, collisions included, and every
\* other file is as it was.
C6_CopyMirrorsTemplate ==
    CopyDone
        => /\ listFiles(DestNow) = listFiles(TemplateDir) \cup listFiles(DestBefore)
           /\ (isEmptyDir(DestBefore) \/ ~force) => listFiles(DestNow) = listFiles(TemplateDir)
           /\ \A p \in listFiles(TemplateDir) : nodeAt(DestNow, p) = nodeAt(TemplateDir, p)
           /\ \A p \in listFiles(DestBefore) \ listFiles(TemplateDir) :
                 nodeAt(DestNow, p) = nodeAt(DestBefore, p)

C6_Witness ==
    /\ CopyDone /\ force
    /\ DestBefore = UserDir
    /\ template = "basic"
    /\ nodeAt(DestBefore, <<"mcp.json">>) # nodeAt(TemplateDir, <<"mcp.json">>)
    /\ nodeAt(DestNow, <<"mcp.json">>) = nodeAt(TemplateDir, <<"mcp.json">>)

-----------------------------------------------------------------------------
(* C7 *)

\* the directories detectPackageManager looks at: cwd and up to ParentLevels
\* ancestors, nearest first
Scanned == 1..(IF Len(chain) < ParentLevels + 1 THEN Len(chain) ELSE ParentLevels + 1)

LocksAt(l) == chain[l] \cap LockfileSet

ManagerOf(f) == LockfileManagers[CHOOSE i \in 1..Len(LockfileNames) : LockfileNames[i] = f]

\* C7: the result is the manager of the first lockfile met when the scanned
\* directories are visited nearest first and, in each, the names in the order
\* pnpm-lock.yaml, package-lock.json, yarn.lock, bun.lockb; with exactly one
\* lockfile in the scanned directories it is that one's manager; with none
\* there (wherever else one may be) it is pnpm.
C7_FirstLockfileWins ==
    detectPc = "done"
        => /\ detected \in {"pnpm", "npm", "yarn", "bun"}
           /\ (\A l \in Scanned : LocksAt(l) = {}) => detected = "pnpm"
           /\ \A l \in Scanned :
                 (LocksAt(l) # {} /\ \A k \in 1..(l - 1) : LocksAt(k) = {})
                    => \E i \in 1..Len(LockfileNames) :
                          /\ LockfileNames[i] \in chain[l]
                          /\ \A j \in 1..(i - 1) : LockfileNames[j] \notin chain[l]
                          /\ detected = LockfileManagers[i]
           /\ \A l \in Scanned, f \in LockfileSet :
                 (LocksAt(l) = {f} /\ \A k \in Scanned \ {l} : LocksAt(k) = {})
                    => detected = ManagerOf(f)

C7_Witness ==
    /\ detectPc = "done"
    /\ Len(chain) = ParentLevels + 2
    /\ chain[ParentLevels + 2] = {"yarn.lock"}
    /\ \A l \in Scanned : chain[l] = {}
    /\ detected = "pnpm"

C7_WitnessPriority ==
    /\ detectPc = "done"
    /\ chain[1] = {}
    /\ Len(chain) >= 3
    /\ chain[3] = {"bun.lockb", "yarn.lock"}
    /\ detected = "yarn"

-----------------------------------------------------------------------------
(* C8 *)

\* C8: slugify of a slug is the slug itself; a slug has only characters of
\* [a-z0-9-_], does not start or end with "-" and has no "--" in it.
C8_SlugIdempotentAndClean ==
    slugPc = "done"
        => /\ slugify(slugOut) = slugOut
           /\ \A i \in 1..Len(slugOut) : slugOut[i] \in SlugSafe
           /\ slugOut # <<>> => (slugOut[1] # "-" /\ slugOut[Len(slugOut)] # "-")
           /\ \A i \in 1..(Len(slugOut) - 1) : ~(slugOut[i] = "-" /\ slugOut[i + 1] = "-")

C8_Witness ==
    /\ slugPc = "done"
    /\ slugIn = <<"A", " ", ".", "z">>
    /\ slugOut = <<"a", "-", "z">>

-----------------------------------------------------------------------------
(* C9 *)

McpNow == nodeAt(DestNow, <<"mcp.json">>)

\* the mcp.json the rewrite found: the template's, or the one the destination
\* held when the template has none
McpFound ==
    IF existsSync(TemplateDir, <<"mcp.json">>)
    THEN nodeAt(TemplateDir, <<"mcp.json">>)
    ELSE nodeAt(DestBefore, <<"mcp.json">>)

\* C9, as stated (second half): when the template has no mcp.json the rewrite
\* is a no-op: after a successful run mcp.json is as the run found it, and
\* none is created.
C9_AsStated ==
    (Succeeded /\ ~existsSync(TemplateDir, <<"mcp.json">>))
        => McpNow = nodeAt(DestBefore, <<"mcp.json">>)

\* C9, amended: after a successful run, a destination with an mcp.json has in
\* it the name slugify(base name of the destination) and the resolved
\* runtime, and every other field as the rewrite found it; the rewrite is a
\* no-op, and creates no mcp.json, when the destination has none after the
\* copy, that is when neither the template nor the destination had one (an
\* mcp.json that a --force run finds in the destination is rewritten even
\* when the template has none).
C9_ManifestNameAndRuntime ==
    Succeeded
        => /\ existsSync(DestNow, <<"mcp.json">>)
                => /\ IsJson(McpNow)
                   /\ McpNow.data.doc["name"] = ExpectedName(targetDir)
                   /\ McpNow.data.doc["runtime"] = runtime
                   /\ DOMAIN McpNow.data.doc = DOMAIN McpFound.data.doc \cup {"name", "runtime"}
                   /\ \A k \in DOMAIN McpFound.data.doc \ {"name", "runtime"} :
                         McpNow.data.doc[k] = McpFound.data.doc[k]
           /\ existsSync(DestNow, <<"mcp.json">>)
                <=> (existsSync(TemplateDir, <<"mcp.json">>)
                        \/ existsSync(DestBefore, <<"mcp.json">>))

C9_Witness ==
    /\ Succeeded
    /\ targetDir = "My App"
    /\ runtime = "deno"
    /\ McpNow = JsonFile([name |-> "my-app", runtime |-> "deno", version |-> "1"])

C9_WitnessNoManifest ==
    /\ Succeeded
    /\ template = "tools-only"
    /\ ~existsSync(DestNow, <<"mcp.json">>)

-----------------------------------------------------------------------------
(* C10 *)

\* C10, as stated: with --help or -h among the arguments the run prints the
\* usage text, and nothing else, and exits with code 0; it shows no prompt,
\* writes nothing and spawns nothing.
C10_AsStated ==
    (Given(args, "help") \/ WordPresent("-h"))
        => /\ printed \in {<<>>, <<"usage">>}
           /\ prompts = <<>>
           /\ NoSideEffects
           /\ Exited => (printed = <<"usage">> /\ exitCode = 0)

\* what holds of the code: --help (and --h), but not -h
C10_LongHelpOnly ==
    (Given(args, "help") \/ Given(args, "h"))
        => /\ prompts = <<>>
           /\ NoSideEffects
           /\ printed \in {<<>>, <<"usage">>}
           /\ Exited => (printed = <<"usage">> /\ exitCode = 0 /\ error = NoError)

-----------------------------------------------------------------------------
(* C11 *)

\* the indices of an argument vector
Indices(av) == 1..Len(av)

\* the flag at i, by the words of the contract: the following token when it
\* exists and does not start with "--", true otherwise
ValueAfter(av, i) ==
    IF i + 1 <= Len(av) /\ ~av[i + 1].dd THEN av[i + 1].body ELSE BoolTrue

\* the token at j is the value of the flag before it
TakenAsValue(av, j) == j > 1 /\ av[j - 1].dd /\ ~av[j].dd

\* the tokens that are neither a flag nor a flag's value, in argument order
RECURSIVE RestFrom(_, _)
RestFrom(av, j) ==
    IF j > Len(av) THEN <<>>
    ELSE IF ~av[j].dd /\ ~TakenAsValue(av, j)
         THEN <<av[j].body>> \o RestFrom(av, j + 1)
         ELSE RestFrom(av, j + 1)

\* parseArgs returned the mapping the contract describes for the vector
MappingOfContract(av, result) ==
    /\ "threw" \notin DOMAIN result
    /\ DOMAIN result.flags = {av[i].body : i \in {j \in Indices(av) : av[j].dd}}
    /\ \A k \in DOMAIN result.flags :
          result.flags[k] \in {ValueAfter(av, i) :
                                  i \in {j \in Indices(av) : av[j] = Flag(k)}}
    /\ result.positional = RestFrom(av, 1)

\* C11, as stated: for every argument vector parseArgs returns, without
\* failing, the mapping in which each token starting with "--" is a key whose
\* value is the following token when that token exists and does not start
\* with "--", and true otherwise, and in which every other token is in the
\* positional list in argument order; unknown flag names are kept.
C11_AsStated ==
    parsePc = "done" => MappingOfContract(argvIn, parsed)

\* the vectors on which the code and the contract part: an empty token right
\* after a flag, which the code does not take as the flag's value, and a
\* flag named "positional", which replaces the list of the result
Plain(av) ==
    /\ \A j \in Indices(av) : TakenAsValue(av, j) => av[j].body # ""
    /\ \A j \in Indices(av) : av[j] # Flag("positional")

\* C11, on the other vectors: parseArgs returns the mapping of the contract,
\* a repeated flag keeping its last value, unknown flag names kept.
C11_PlainVectorsParsed ==
    (parsePc = "done" /\ Plain(argvIn))
        => /\ MappingOfContract(argvIn, parsed)
           /\ \A i \in Indices(argvIn) :
                 (/\ argvIn[i].dd
                  /\ \A j \in Indices(argvIn) : j > i => argvIn[j] # argvIn[i])
                     => parsed.flags[argvIn[i].body] = ValueAfter(argvIn, i)

\* a vector with an unknown flag and its value, a flag without a value and a
\* positional word has been parsed
C11_Witness ==
    /\ parsePc = "done"
    /\ argvIn = <<Flag("verbose"), Word("basic"), Word("-h")>>
    /\ parsed = [flags |-> ("verbose" :> "basic"), positional |-> <<"-h">>]

\* an empty token after a flag is left in the positional list
C11_WitnessEmptyToken ==
    /\ parsePc = "done"
    /\ argvIn = <<Flag("dir"), Word("")>>
    /\ parsed = [flags |-> ("dir" :> BoolTrue), positional |-> <<"">>]

\* a word after a --positional flag with a value makes parseArgs throw
C11_WitnessThrows ==
    /\ parsePc = "done"
    /\ argvIn = <<Flag("positional"), Word("basic"), Word("-h")>>
    /\ parsed = Thrown("TypeError")

-----------------------------------------------------------------------------
(* C12 *)

IsPrefix(s, t) == Len(s) <= Len(t) /\ s = SubSeq(t, 1, Len(s))

AllLabels == {"Validating destination", "Copying template", "Configuring manifest",
              "Installing dependencies", "Finalizing"}

IsLabel(line) == line \in AllLabels

\* the finished lines among what the run printed, in order
FinishedLines == SelectSeq(printed, IsLabel)

\* at every point of a run: the records are a prefix of the planned labels,
\* the label being animated is the planned one after them (none before the
\* first step call, the last one again after the flush), there is one
\* finished line per record, and a run that got to the end has one record
\* per planned label
C12_Inv ==
    /\ IsPrefix(stepTimes, stepLabels)
    /\ FinishedLines = stepTimes
    /\ lastStep = "" => stepTimes = <<>>
    /\ (lastStep # "" /\ ~Succeeded) => /\ Len(stepTimes) < Len(stepLabels)
                                         /\ lastStep = stepLabels[Len(stepTimes) + 1]
    /\ Succeeded => stepTimes = stepLabels /\ lastStep = "Finalizing"

\* in every step of a run: the list only grows; the first step call records
\* nothing; a later step call records exactly the label that was animated;
\* the last one is followed by the flush of its own record
C12_Step ==
    /\ IsPrefix(stepTimes, stepTimes')
    /\ (lastStep = "" /\ lastStep' # "") => stepTimes' = stepTimes
    /\ (lastStep # "" /\ lastStep' # lastStep)
          => /\ IsPrefix(Append(stepTimes, lastStep), stepTimes')
             /\ stepTimes' \in {Append(stepTimes, lastStep),
                                Append(stepTimes, lastStep) \o <<lastStep'>>}
             /\ Len(stepTimes') = Len(stepTimes) + 2 <=> lastStep' = "Finalizing"
    /\ lastStep' = lastStep => stepTimes' = stepTimes

\* C12: the step-timing list is append-only and always a prefix of the planned
\* label sequence; the first step call records nothing, each later one records
\* exactly the previous label, the final flush records the trailing label; a
\* successful run ends with exactly one record per planned label, in order,
\* and there is one finished line printed per record.
C12_StepRecords == []C12_Inv /\ [][C12_Step]_vars

\* a run with the install got to the end: five records, five finished lines
C12_Witness ==
    /\ Succeeded
    /\ shouldInstall
    /\ stepTimes = <<"Validating destination", "Copying template",
                     "Configuring manifest", "Installing dependencies", "Finalizing">>
    /\ FinishedLines = stepTimes

\* a run without the install got to the end: four records
C12_WitnessNoInstall ==
    /\ Succeeded
    /\ ~shouldInstall
    /\ stepTimes = <<"Validating destination", "Copying template",
                     "Configuring manifest", "Finalizing">>

\* a run that failed in the install: the record of the step that failed is
\* never pushed
C12_WitnessFailed ==
    /\ Exited
    /\ error.message = InstallFailed
    /\ lastStep = "Installing dependencies"
    /\ stepTimes = <<"Validating destination", "Copying template",
                     "Configuring manifest">>

-----------------------------------------------------------------------------
(* C13 *)

\* the step is the call of that name
IsCall(name) == calls' = calls + 1 /\ lastCall' = name

\* what a call can change of the controller
Held == <<timer, message, frameIndex, intervals, handles, stdout>>

\* at every point: the active intervals are the one whose handle the
\* controller holds, or none; a disabled controller has never created an
\* interval nor written anything
C13_Inv ==
    /\ Cardinality(intervals) <= 1
    /\ intervals = IF timer = NoTimer THEN {} ELSE {timer}
    /\ ~enabled => intervals = {} /\ handles = 0 /\ stdout = <<>>

\* in every call: pause leaves no interval; resume creates an interval exactly
\* when the controller is enabled, none is active and the label is not empty,
\* and changes nothing otherwise; stop leaves no interval and no label; a
\* resume right after a stop changes nothing
C13_Step ==
    /\ IsCall("pause") => intervals' = {} /\ timer' = NoTimer /\ message' = message
    /\ IsCall("resume")
          => IF enabled /\ intervals = {} /\ message # ""
             THEN Cardinality(intervals') = 1 /\ handles' = handles + 1
             ELSE Held' = Held
    /\ IsCall("stop") => intervals' = {} /\ timer' = NoTimer /\ message' = ""
    /\ (lastCall = "stop" /\ IsCall("resume")) => Held' = Held
    /\ handles' # handles => intervals = {}

\* C13: on an enabled spinner at most one interval is active at a time under
\* any sequence of start, update, pause, resume and stop; pause clears the
\* interval; resume starts one only when none is active and a label is
\* pending; stop leaves no interval and no label, so a resume after it does
\* nothing; on a disabled spinner no call creates an interval or writes.
C13_OneInterval == []C13_Inv /\ [][C13_Step]_vars

\* an enabled spinner was started, paused and resumed, and animates again on
\* its second interval
C13_Witness ==
    /\ enabled
    /\ lastCall = "resume"
    /\ handles = 2
    /\ intervals = {2}
    /\ message # ""

\* an enabled spinner was started with a label and stopped (the one call that
\* clears the interval and the label at once), and the resume after the stop
\* found nothing to animate
C13_WitnessStopped ==
    /\ enabled
    /\ lastCall = "resume"
    /\ handles = 1
    /\ intervals = {}
    /\ message = ""
    /\ calls = 3
    /\ stdout # <<>> /\ stdout[1].text # ""

\* a start on a spinner that animates keeps the interval and takes the label
C13_WitnessSecondStart ==
    /\ enabled
    /\ lastCall = "start"
    /\ calls > 1
    /\ handles = 1
    /\ intervals = {1}
    /\ message = "Finalizing"

\* a disabled spinner took every call and holds a label
C13_WitnessDisabled ==
    /\ ~enabled
    /\ calls = MaxCalls
    /\ lastCall = "resume"
    /\ message # ""

=============================================================================
